---- MODULE Spec2Model ----
(***************************************************************************)
(* Model of the event store of routes/eventRoutes.js: a JSON file that     *)
(* holds an array of events, and the four route handlers (POST, GET, PUT,  *)
(* DELETE) that read the whole file, change the array in memory and write  *)
(* the whole file back.                                                    *)
(*                                                                         *)
(* SeqSpec and FieldSpec serve one request at a time (each handler runs to *)
(* its response before the next request arrives); they differ in the       *)
(* requests sent.  ConcSpec and RaceSpec run the handlers of two clients   *)
(* at once; a handler yields at its awaits (readFile, and the open and the *)
(* write of writeFile), so the other handler runs in between.              *)
(***************************************************************************)
EXTENDS Integers, Sequences, FiniteSets, TLC

\* Bound of the model: the handlers accept a create only while the array
\* that was read holds fewer than MaxEvents events.
MaxEvents == 2

(***************************************************************************)
(* JSON values of a request body.  A field is absent (undefined after the  *)
(* destructuring), a string, or an array of values.  All three are tuples, *)
(* told apart by their length, so that any two values can be compared      *)
(* (===): <<>> is undefined, <<str>> the string str, <<"array", arr>> the  *)
(* array of the values arr.                                                *)
(***************************************************************************)
Undefined == <<>>
JStr(str) == <<str>>
JArr(arr) == <<"array", arr>>

IsString(v) == Len(v) = 1
IsArray(v) == Len(v) = 2

\* The values of an array.
Elements(v) == v[2]

\* JavaScript truthiness: undefined and "" are falsy, a non-empty string and
\* every array (the empty one too) are truthy.
Truthy(v) == \/ IsArray(v)
             \/ IsString(v) /\ v # JStr("")

(***************************************************************************)
(* The data file.  st is "missing" (no file: ENOENT), "empty" (the file    *)
(* exists with no content: writeFile has opened and truncated it), "json"  *)
(* (the pretty-printed array `events`) or "corrupt" (content that          *)
(* JSON.parse rejects).                                                    *)
(***************************************************************************)
Missing == [st |-> "missing", events |-> <<>>]
Empty == [st |-> "empty", events |-> <<>>]
Corrupt == [st |-> "corrupt", events |-> <<>>]

\* readEvents throws on content that does not parse.
ReadFails(f) == f.st = "corrupt"

\* readEvents: [] for a missing file and for blank content, else the array.
ReadEvents(f) == IF f.st = "json" THEN f.events ELSE <<>>

\* writeEvents, whole: the file holds JSON.stringify(events).  Every value an
\* event holds is a string or an array of strings, which stringify followed
\* by parse gives back as it was.
WriteEvents(events) == [st |-> "json", events |-> events]

\* generateId: Date.now().toString() + "-" + Math.floor(Math.random()*100000).
\* The digits of the two numbers around the "-" make the string determine the
\* pair and the pair the string.
generateId(now, rnd) == <<now, rnd>>

\* What Date.now() and the random draw give.  Two creates in different
\* milliseconds get different ids, as two creates with different draws do:
\* the model keeps one millisecond, in which the draw decides, and two draws
\* for 0..99999.
Times == {1}
Rands == {0, 1}
Ids == {generateId(t, r) : t \in Times, r \in Rands}

(***************************************************************************)
(* Events and the pure parts of the handlers.                              *)
(***************************************************************************)

\* The pair the duplicate check of POST compares, with ===: the eventName
\* and the date of the requests are strings, which === compares by value.
SamePair(e, body) == e.eventName = body.eventName /\ e.date = body.date

\* PostInvalid without the test of location.
PostInvalidNoLocation(body) == \/ ~Truthy(body.eventName)
                               \/ ~Truthy(body.date)

\* POST: !eventName || !date || !location.
PostInvalid(body) == \/ ~Truthy(body.eventName)
                     \/ ~Truthy(body.date)
                     \/ ~Truthy(body.location)

\* IsDuplicate with e.date compared to location instead of date.
IsDuplicateWrongField(events, body) ==
  \E i \in DOMAIN events : /\ events[i].eventName = body.eventName
                           /\ events[i].date = body.location

\* POST: events.find(e => e.eventName === eventName && e.date === date).
IsDuplicate(events, body) == \E i \in DOMAIN events : SamePair(events[i], body)

\* POST: tags: Array.isArray(tags) ? tags : tags ? [tags] : [].
PostTags(tags) == IF IsArray(tags) THEN tags
                  ELSE IF Truthy(tags) THEN JArr(<<tags>>)
                  ELSE JArr(<<>>)

\* NewEvent with the description of the request dropped.
NewEventNoDescription(id, body) ==
  [id |-> id,
   eventName |-> body.eventName,
   date |-> body.date,
   location |-> body.location,
   description |-> JStr(""),
   tags |-> PostTags(body.tags)]

\* POST: the new event; description: description || "".
NewEvent(id, body) ==
  [id |-> id,
   eventName |-> body.eventName,
   date |-> body.date,
   location |-> body.location,
   description |-> IF Truthy(body.description) THEN body.description ELSE JStr(""),
   tags |-> PostTags(body.tags)]

\* What a handler has decided when it has run up to its response or up to
\* its writeEvents: the status and the events of the response body, whether
\* it writes, and the array it writes.
Reply(status, data) == [status |-> status, data |-> data, write |-> FALSE, events |-> <<>>]
ReplyAfterWrite(status, data, events) ==
  [status |-> status, data |-> data, write |-> TRUE, events |-> events]

\* The error handler of the application: a thrown error is answered 500.
ServerError == Reply(500, <<>>)

\* router.post, from the request to writeEvents; f is the file as readEvents
\* finds it, id what generateId returns.
PostHandler(f, body, id) ==
  IF PostInvalid(body) THEN Reply(400, <<>>)
  ELSE IF ReadFails(f) THEN ServerError
  ELSE LET events == ReadEvents(f) IN
       IF IsDuplicate(events, body) THEN Reply(409, <<>>)
       ELSE LET newEvent == NewEvent(id, body) IN
            ReplyAfterWrite(201, <<newEvent>>, Append(events, newEvent))

\* router.get: the array as read.
GetHandler(f) == IF ReadFails(f) THEN ServerError ELSE Reply(200, ReadEvents(f))

\* PUT: if (eventName) ... if (rest.id) ...
PutForbidden(body) == Truthy(body.eventName) \/ Truthy(body.id)

\* PUT: none of location, description, tags, date is given.
PutNothing(body) == /\ body.location = Undefined
                    /\ body.description = Undefined
                    /\ body.tags = Undefined
                    /\ body.date = Undefined

\* events.findIndex(e => e.id === id), counted from 1; 0 stands for -1.
FindIndex(events, id) ==
  IF \E i \in DOMAIN events : events[i].id = id
  THEN CHOOSE i \in DOMAIN events :
         /\ events[i].id = id
         /\ \A j \in 1..(i - 1) : events[j].id # id
  ELSE 0

\* PUT: tags = Array.isArray(tags) ? tags : [tags].
PutTags(tags) == IF IsArray(tags) THEN tags ELSE JArr(<<tags>>)

\* ApplyUpdate with the tags given added to the tags the event has.
ApplyUpdateMergeTags(e, body) ==
  [e EXCEPT !.location = IF body.location # Undefined THEN body.location ELSE @,
            !.description = IF body.description # Undefined THEN body.description ELSE @,
            !.date = IF body.date # Undefined THEN body.date ELSE @,
            !.tags = IF body.tags # Undefined
                    THEN JArr(Elements(@) \o Elements(PutTags(body.tags)))
                    ELSE @]

\* PUT: the four conditional assignments to events[index].
ApplyUpdate(e, body) ==
  [e EXCEPT !.location = IF body.location # Undefined THEN body.location ELSE @,
            !.description = IF body.description # Undefined THEN body.description ELSE @,
            !.date = IF body.date # Undefined THEN body.date ELSE @,
            !.tags = IF body.tags # Undefined THEN PutTags(body.tags) ELSE @]

\* PutHandler with the duplicate check of POST applied to the updated event.
PutHandlerUnique(f, id, body) ==
  IF PutForbidden(body) THEN Reply(400, <<>>)
  ELSE IF PutNothing(body) THEN Reply(400, <<>>)
  ELSE IF ReadFails(f) THEN ServerError
  ELSE LET events == ReadEvents(f)
           index == FindIndex(events, id) IN
       IF index = 0 THEN Reply(404, <<>>)
       ELSE LET updated == [events EXCEPT ![index] = ApplyUpdate(@, body)] IN
            IF \E j \in DOMAIN events : j # index /\ SamePair(events[j], updated[index])
            THEN Reply(409, <<>>)
            ELSE ReplyAfterWrite(200, <<updated[index]>>, updated)

\* router.put, from the request to writeEvents.
PutHandler(f, id, body) ==
  IF PutForbidden(body) THEN Reply(400, <<>>)
  ELSE IF PutNothing(body) THEN Reply(400, <<>>)
  ELSE IF ReadFails(f) THEN ServerError
  ELSE LET events == ReadEvents(f)
           index == FindIndex(events, id) IN
       IF index = 0 THEN Reply(404, <<>>)
       ELSE LET updated == [events EXCEPT ![index] = ApplyUpdate(@, body)] IN
            ReplyAfterWrite(200, <<updated[index]>>, updated)

\* DELETE: events.filter(e => e.id !== id).
Filter(events, id) == SelectSeq(events, LAMBDA e : e.id # id)

\* router.delete, from the request to writeEvents.
DeleteHandler(f, id) ==
  IF ReadFails(f) THEN ServerError
  ELSE LET events == ReadEvents(f) IN
       IF FindIndex(events, id) = 0 THEN Reply(404, <<>>)
       ELSE ReplyAfterWrite(200, <<>>, Filter(events, id))

(***************************************************************************)
(* State.  file is the data file.  Each client p sends one request at a    *)
(* time: req[p] is its latest request, resp[p] the response to it (status  *)
(* 0: none yet).  pc[p], pend[p] are the handler of that request: where it *)
(* stands ("idle": no handler runs; "open": before writeFile opens the     *)
(* file; "write": before writeFile writes the content) and what it has     *)
(* decided to write and to answer.                                         *)
(***************************************************************************)
VARIABLES file, req, resp, pc, pend

vars == <<file, req, resp, pc, pend>>

\* The clients of a run.
Procs == DOMAIN pc

NoId == <<0, 0>>
NoBody == [eventName |-> Undefined, date |-> Undefined, location |-> Undefined,
           description |-> Undefined, tags |-> Undefined, id |-> Undefined]
NoRequest == [op |-> "none", id |-> NoId, body |-> NoBody]
NoResponse == [status |-> 0, data |-> <<>>]
Response(o) == [status |-> o.status, data |-> o.data]

\* The server has started, there is no data file yet and no client of
\* `clients` has sent a request.
Start(clients) == /\ file = Missing
                  /\ req = [p \in clients |-> NoRequest]
                  /\ resp = [p \in clients |-> NoResponse]
                  /\ pc = [p \in clients |-> "idle"]
                  /\ pend = [p \in clients |-> Reply(0, <<>>)]

\* One client: it sends a request when it has the response to the one before.
Init == Start({1})

\* Two clients.
ConcInit == Start({1, 2})

\* The model accepts a request that appends only below the bound.
Room(o) == o.write => Len(o.events) <= MaxEvents

(***************************************************************************)
(* One request at a time: the handler of client p runs from the request to *)
(* the response with no other handler in between, so readEvents, the       *)
(* change and writeEvents are one step.                                    *)
(***************************************************************************)
Serve(p, r, o) ==
  /\ pc[p] = "idle"
  /\ Room(o)
  /\ file' = IF o.write THEN WriteEvents(o.events) ELSE file
  /\ req' = [req EXCEPT ![p] = r]
  /\ resp' = [resp EXCEPT ![p] = Response(o)]
  /\ UNCHANGED <<pc, pend>>

Post(p, body, now, rnd) ==
  Serve(p, [op |-> "POST", id |-> NoId, body |-> body],
        PostHandler(file, body, generateId(now, rnd)))

Get(p) == Serve(p, [op |-> "GET", id |-> NoId, body |-> NoBody], GetHandler(file))

Put(p, id, body) ==
  Serve(p, [op |-> "PUT", id |-> id, body |-> body], PutHandler(file, id, body))

Delete(p, id) ==
  Serve(p, [op |-> "DELETE", id |-> id, body |-> NoBody], DeleteHandler(file, id))

(***************************************************************************)
(* Request bodies.                                                         *)
(***************************************************************************)
Body(n, d, l, desc, t, i) ==
  [eventName |-> n, date |-> d, location |-> l, description |-> desc, tags |-> t, id |-> i]

Names == {JStr("Gala"), JStr("Expo")}
Dates == {JStr("d1"), JStr("d2")}
Hall == JStr("Hall")
Park == JStr("Park")

\* Creates that differ in the pair (eventName, date), and creates that lack
\* a required field or carry an empty eventName.
KeyPostBodies ==
  {Body(n, d, Hall, Undefined, Undefined, Undefined) : n \in Names, d \in Dates}
  \cup {Body(Undefined, JStr("d1"), Hall, Undefined, Undefined, Undefined),
        Body(JStr("Gala"), Undefined, Hall, Undefined, Undefined, Undefined),
        Body(JStr("Gala"), JStr("d1"), Undefined, Undefined, Undefined, Undefined),
        Body(JStr(""), JStr("d1"), Hall, Undefined, Undefined, Undefined)}

\* Updates of the date, the empty update, and updates that carry eventName
\* or id (a non-empty string or the empty string), alone or with a date.
KeyPutBodies ==
  {Body(Undefined, d, Undefined, Undefined, Undefined, Undefined) :
     d \in Dates \cup {Undefined}}
  \cup {Body(n, d, Undefined, Undefined, Undefined, Undefined) :
          n \in {JStr(""), JStr("Fair")}, d \in {Undefined, JStr("d2")}}
  \cup {Body(Undefined, JStr("d2"), Undefined, Undefined, Undefined, i) :
          i \in {JStr(""), JStr("7")}}

SeqNext ==
  \/ \E body \in KeyPostBodies, now \in Times, rnd \in Rands : Post(1, body, now, rnd)
  \/ Get(1)
  \/ \E id \in Ids, body \in KeyPutBodies : Put(1, id, body)
  \/ \E id \in Ids : Delete(1, id)

SeqSpec == Init /\ [][SeqNext]_vars

\* Creates of one pair that differ in description and tags: absent, a
\* string, an array, and a tags that is a string and no array.
FieldPostBodies ==
  {Body(JStr("Gala"), JStr("d1"), Hall, desc, t, Undefined) :
     desc \in {Undefined, JStr("x")},
     t \in {Undefined, JArr(<<JStr("t")>>), JStr("t")}}

\* Updates of each field alone, of tags by an array and by a string, and of
\* several fields at once.
FieldPutBodies ==
  {Body(Undefined, Undefined, Park, Undefined, Undefined, Undefined),
   Body(Undefined, Undefined, Undefined, JStr(""), Undefined, Undefined),
   Body(Undefined, JStr("d2"), Undefined, Undefined, Undefined, Undefined),
   Body(Undefined, Undefined, Undefined, Undefined, JArr(<<>>), Undefined),
   Body(Undefined, Undefined, Undefined, Undefined, JStr("t"), Undefined),
   Body(Undefined, Undefined, Park, JStr(""), Undefined, Undefined),
   Body(Undefined, JStr("d2"), Park, JStr(""), JArr(<<>>), Undefined)}

FieldNext ==
  \/ \E body \in FieldPostBodies, now \in Times, rnd \in Rands : Post(1, body, now, rnd)
  \/ Get(1)
  \/ \E id \in Ids, body \in FieldPutBodies : Put(1, id, body)
  \/ \E id \in Ids : Delete(1, id)

FieldSpec == Init /\ [][FieldNext]_vars

(***************************************************************************)
(* Handlers that run at once.  A handler runs without interruption from    *)
(* one await to the next; the awaits that touch the file are readFile in   *)
(* readEvents and, in writeFile, the open of the file (flag "w": the file  *)
(* is created or cut to length 0) and the write of the text.               *)
(***************************************************************************)

\* The handler of client p from the request through readEvents up to its
\* response, or up to its writeEvents when it has something to write.
Read(p, r, o) ==
  /\ pc[p] = "idle"
  /\ Room(o)
  /\ req' = [req EXCEPT ![p] = r]
  /\ IF o.write
     THEN /\ pc' = [pc EXCEPT ![p] = "open"]
          /\ pend' = [pend EXCEPT ![p] = o]
          /\ resp' = [resp EXCEPT ![p] = NoResponse]
     ELSE /\ resp' = [resp EXCEPT ![p] = Response(o)]
          /\ UNCHANGED <<pc, pend>>
  /\ UNCHANGED file

PostRead(p, body, now, rnd) ==
  Read(p, [op |-> "POST", id |-> NoId, body |-> body],
       PostHandler(file, body, generateId(now, rnd)))

GetRead(p) == Read(p, [op |-> "GET", id |-> NoId, body |-> NoBody], GetHandler(file))

PutRead(p, id, body) ==
  Read(p, [op |-> "PUT", id |-> id, body |-> body], PutHandler(file, id, body))

DeleteRead(p, id) ==
  Read(p, [op |-> "DELETE", id |-> id, body |-> NoBody], DeleteHandler(file, id))

\* writeFile opens the file: whatever it held is gone.
OpenFile(p) ==
  /\ pc[p] = "open"
  /\ file' = Empty
  /\ pc' = [pc EXCEPT ![p] = "write"]
  /\ UNCHANGED <<req, resp, pend>>

\* Written with a write that gives way to a text written since the open.
WrittenUnlessWritten(f, events) ==
  IF f.st = "empty" THEN {WriteEvents(events)} ELSE {f}

\* What the file holds once `events` is written from its start: the text of
\* `events` when the file was empty; when another handler has written since
\* this one opened the file, the text of `events`, followed by the rest of
\* the other text if that one is longer, which does not parse.
Written(f, events) ==
  IF f.st = "empty" THEN {WriteEvents(events)} ELSE {WriteEvents(events), Corrupt}

\* writeFile writes the text; writeEvents returns and the handler responds.
WriteFile(p) ==
  /\ pc[p] = "write"
  /\ file' \in Written(file, pend[p].events)
  /\ resp' = [resp EXCEPT ![p] = Response(pend[p])]
  /\ pc' = [pc EXCEPT ![p] = "idle"]
  /\ pend' = [pend EXCEPT ![p] = Reply(0, <<>>)]
  /\ UNCHANGED req

\* Creates of two pairs; updates of the location, and of the date to the
\* date the event has.
ConcPostBodies ==
  {Body(n, JStr("d1"), Hall, Undefined, Undefined, Undefined) : n \in Names}

ConcPutBodies ==
  {Body(Undefined, Undefined, Park, Undefined, Undefined, Undefined),
   Body(Undefined, JStr("d1"), Undefined, Undefined, Undefined, Undefined)}

ConcNext ==
  \E p \in Procs :
    \/ \E body \in ConcPostBodies, now \in Times, rnd \in Rands : PostRead(p, body, now, rnd)
    \/ GetRead(p)
    \/ \E id \in Ids, body \in ConcPutBodies : PutRead(p, id, body)
    \/ \E id \in Ids : DeleteRead(p, id)
    \/ OpenFile(p)
    \/ WriteFile(p)

ConcSpec == ConcInit /\ [][ConcNext]_vars

\* Creates, reads and updates at once, and no delete: no request takes an
\* event out of the array it has read.
RaceNext ==
  \E p \in Procs :
    \/ \E body \in ConcPostBodies, now \in Times, rnd \in Rands : PostRead(p, body, now, rnd)
    \/ GetRead(p)
    \/ \E id \in Ids, body \in ConcPutBodies : PutRead(p, id, body)
    \/ OpenFile(p)
    \/ WriteFile(p)

RaceSpec == ConcInit /\ [][RaceNext]_vars

(***************************************************************************)
(* Properties.  Under SeqSpec and FieldSpec every step serves one request  *)
(* of client 1 from its arrival to its response: in a step, Rq' is the     *)
(* request served, Rs' the response to it, Stored the collection before    *)
(* it and Stored' the collection after it.                                 *)
(***************************************************************************)
Rq == req[1]
Rs == resp[1]
Stored == ReadEvents(file)

\* A field that is given with a value: a non-empty string.
Given(v) == IsString(v) /\ v # JStr("")

\* A create that carries its three required fields.
Complete(body) == Given(body.eventName) /\ Given(body.date) /\ Given(body.location)

\* The places of `events` that hold the pair (eventName, date).
PairPlaces(events, n, d) ==
  {i \in DOMAIN events : events[i].eventName = n /\ events[i].date = d}

\* `events` without its i-th event.
RemoveAt(events, i) == SubSeq(events, 1, i - 1) \o SubSeq(events, i + 1, Len(events))

\* What C1 asks of a step.
C1_Step ==
  LET b == Rq'.body IN
  /\ (/\ Rq'.op = "POST"
      /\ Complete(b)
      /\ PairPlaces(Stored, b.eventName, b.date) # {})
     => (Rs'.status = 409 /\ file' = file)
  /\ (/\ Rq.op = "POST"
      /\ Rs.status = 201
      /\ Rq'.op = "POST"
      /\ Complete(b)
      /\ b.eventName = Rq.body.eventName
      /\ b.date = Rq.body.date)
     => (/\ Rs'.status = 409
         /\ Cardinality(PairPlaces(Stored', b.eventName, b.date)) = 1)

\* C1: when requests run one at a time, a create (with its required fields)
\* whose pair (eventName, date) is that of a stored event is answered 409 and
\* the file stays as it is; and when a create has been answered 201 and the
\* next request is a create of the same pair, that one is answered 409 and
\* the collection holds exactly one event with the pair.
C1_DuplicateCreateRejected == [][C1_Step]_vars

\* A create was answered 409 and the collection, of two events, holds one
\* event with its pair.
C1_Witness ==
  /\ Rq.op = "POST"
  /\ Rs.status = 409
  /\ Len(Stored) = 2
  /\ Cardinality(PairPlaces(Stored, Rq.body.eventName, Rq.body.date)) = 1

\* What C2 asks of a step.
C2_Step ==
  LET b == Rq'.body IN
  /\ (Rq'.op \in {"POST", "PUT", "DELETE"} /\ Rs'.status \in {400, 404, 409})
     => file' = file
  /\ (/\ Rq'.op = "POST"
      /\ Undefined \in {b.eventName, b.date, b.location})
     => (Rs'.status = 400 /\ file' = file)
  /\ (Rq'.op = "PUT" /\ b = NoBody)
     => (Rs'.status = 400 /\ file' = file)

\* C2: a create, update or delete that is answered 400, 404 or 409 leaves the
\* file as it was; a create that lacks eventName, date or location is
\* answered 400 and an update with an empty body is answered 400, and neither
\* writes.
C2_FailureWritesNothing == [][C2_Step]_vars

\* A create without location was answered 400 while the collection holds an
\* event.
C2_Witness ==
  /\ Rq.op = "POST"
  /\ Rq.body.location = Undefined
  /\ Rs.status = 400
  /\ Len(Stored) > 0

\* What C4 asks of a step.
C4_Step ==
  /\ (Rq'.op = "DELETE" /\ \E i \in DOMAIN Stored : Stored[i].id = Rq'.id)
     => (/\ Rs'.status = 200
         /\ \E i \in DOMAIN Stored : /\ Stored[i].id = Rq'.id
                                     /\ Stored' = RemoveAt(Stored, i))
  /\ (/\ Rq.op = "DELETE"
      /\ Rs.status = 200
      /\ Rq'.op = "DELETE"
      /\ Rq'.id = Rq.id)
     => (Rs'.status = 404 /\ file' = file)

\* C4: when requests run one at a time, a delete of an id that is in the
\* collection is answered 200 and removes exactly one event, one with that
\* id, the others staying in their order; and a delete of the same id right
\* after it is answered 404 and changes nothing.
C4_DeleteRemovesOne == [][C4_Step]_vars

\* What C5 asks of a step.
C5_Step ==
  (/\ Rq'.op = "PUT"
   /\ (Rq'.body.eventName # Undefined \/ Rq'.body.id # Undefined))
  => (Rs'.status = 400 /\ file' = file)

\* C5: an update whose body carries eventName or id is answered 400, whether
\* or not the id of the path is in the collection and whatever else the body
\* carries, and the file stays as it is.
C5_ForbiddenFieldRejected == [][C5_Step]_vars

\* C6: the events of the collection have pairwise distinct ids.
C6_DistinctIds ==
  \A i, j \in DOMAIN Stored : i # j => Stored[i].id # Stored[j].id

\* What C9 asks of a step.
C9_Step ==
  LET b == Rq'.body
      i == FindIndex(Stored, Rq'.id) IN
  (/\ Rq'.op = "PUT"
   /\ b.eventName = Undefined
   /\ b.id = Undefined
   /\ Given(b.date)
   /\ i # 0
   /\ \E j \in DOMAIN Stored :
        j # i /\ Stored[j].eventName = Stored[i].eventName /\ Stored[j].date = b.date)
  => (/\ Rs'.status = 200
      /\ file'.st = "json"
      /\ Len(Stored') = Len(Stored)
      /\ Stored'[i].date = b.date
      /\ Cardinality(PairPlaces(Stored', Stored[i].eventName, b.date)) >= 2)

\* C9: an update that gives a date, of an id that is in the collection, is
\* answered 200 and stored also when another stored event has the eventName
\* of the updated event and the date given: the collection then holds two
\* events with that pair.
C9_UpdateMayDuplicatePair == [][C9_Step]_vars

\* An update of the date was answered 200 and the collection holds two
\* events with the pair of the updated event.
C9_Witness ==
  /\ Rq.op = "PUT"
  /\ Given(Rq.body.date)
  /\ Rs.status = 200
  /\ Len(Rs.data) = 1
  /\ Cardinality(PairPlaces(Stored, Rs.data[1].eventName, Rs.data[1].date)) = 2

\* What read-all answers for the file f.
ReadAll(f) == GetHandler(f).data

\* What C3 asks of a step.
C3_Step ==
  LET b == Rq'.body IN
  (Rq'.op = "PUT" /\ Rs'.status = 200)
  => /\ Len(Stored') = Len(Stored)
     /\ \E i \in DOMAIN Stored :
          /\ Stored[i].id = Rq'.id
          /\ \A j \in DOMAIN Stored : j # i => Stored'[j] = Stored[j]
          /\ Stored'[i].id = Stored[i].id
          /\ Stored'[i].eventName = Stored[i].eventName
          /\ b.location = Undefined => Stored'[i].location = Stored[i].location
          /\ b.description = Undefined => Stored'[i].description = Stored[i].description
          /\ b.date = Undefined => Stored'[i].date = Stored[i].date
          /\ b.tags = Undefined => Stored'[i].tags = Stored[i].tags
          /\ IsArray(b.tags) => Stored'[i].tags = b.tags

\* C3: an update answered 200 changes one event, one with the id of the
\* path: its id, its eventName and each of location, description, date and
\* tags that the request does not give keep their values, a tags given as an
\* array becomes the tags of the event, and the other events and the order of
\* the events stay as they are.
C3_UpdateChangesGivenFieldsOnly == [][C3_Step]_vars

\* An update of the location alone was answered 200; the collection holds two
\* events, and the updated one has the new location and the description and
\* tags it was created with.
C3_Witness ==
  /\ Rq.op = "PUT"
  /\ Rq.body = Body(Undefined, Undefined, Park, Undefined, Undefined, Undefined)
  /\ Rs.status = 200
  /\ Len(Stored) = 2
  /\ Len(Rs.data) = 1
  /\ Rs.data[1].location = Park
  /\ Rs.data[1].description = JStr("x")
  /\ Rs.data[1].tags = JArr(<<JStr("t")>>)

\* What C7 asks of a step, as stated.
C7_StepAsStated ==
  LET b == Rq'.body
      all == ReadAll(file') IN
  /\ (Rq'.op = "POST" /\ Rs'.status = 201)
     => \E i \in DOMAIN all :
          /\ all[i].id = Rs'.data[1].id
          /\ all[i].eventName = b.eventName
          /\ all[i].date = b.date
          /\ all[i].location = b.location
          /\ b.description # Undefined => all[i].description = b.description
          /\ b.tags # Undefined => all[i].tags = b.tags
  /\ (Rq'.op = "PUT" /\ Rs'.status = 200)
     => \E i \in DOMAIN all :
          /\ all[i].id = Rq'.id
          /\ b.location # Undefined => all[i].location = b.location
          /\ b.description # Undefined => all[i].description = b.description
          /\ b.date # Undefined => all[i].date = b.date
          /\ b.tags # Undefined => all[i].tags = b.tags
  /\ (Rq'.op = "DELETE" /\ Rs'.status = 200)
     => \A i \in DOMAIN all : all[i].id # Rq'.id
  /\ Rq'.op = "GET" => (Rs'.status = 200 /\ Rs'.data = Stored)

\* C7 as stated: after a create answered 201, read-all holds an event with
\* the id answered and the eventName, date, location, description and tags of
\* the request; after an update answered 200, read-all holds an event with
\* that id and the fields of the request; after a delete answered 200,
\* read-all holds no event with that id; and read-all answers the collection.
C7_RoundTripAsStated == [][C7_StepAsStated]_vars

\* What C7 asks of a step.
C7_Step ==
  LET b == Rq'.body
      all == ReadAll(file') IN
  /\ (Rq'.op = "POST" /\ Rs'.status = 201)
     => \E i \in DOMAIN all :
          /\ all[i].id = Rs'.data[1].id
          /\ all[i].eventName = b.eventName
          /\ all[i].date = b.date
          /\ all[i].location = b.location
          /\ all[i].description = IF Given(b.description) THEN b.description ELSE JStr("")
          /\ all[i].tags = IF IsArray(b.tags) THEN b.tags
                           ELSE IF Given(b.tags) THEN JArr(<<b.tags>>)
                           ELSE JArr(<<>>)
  /\ (Rq'.op = "PUT" /\ Rs'.status = 200)
     => \E i \in DOMAIN all :
          /\ all[i].id = Rq'.id
          /\ b.location # Undefined => all[i].location = b.location
          /\ b.description # Undefined => all[i].description = b.description
          /\ b.date # Undefined => all[i].date = b.date
          /\ b.tags # Undefined =>
               all[i].tags = IF IsArray(b.tags) THEN b.tags ELSE JArr(<<b.tags>>)
  /\ (Rq'.op = "DELETE" /\ Rs'.status = 200)
     => \A i \in DOMAIN all : all[i].id # Rq'.id
  /\ Rq'.op = "GET" => (Rs'.status = 200 /\ Rs'.data = Stored)

\* C7, amended: as stated, except that the event holds the description ""
\* when the create gives none or an empty one, and holds as tags the array
\* given, the array of the one value given when that is no array (and, in a
\* create, not empty), and the empty array when a create gives no tags or
\* an empty one.
C7_RoundTrip == [][C7_Step]_vars

\* A create that gives a description and, as tags, a string was answered
\* 201, and read-all holds its event with the string as the one tag.
C7_Witness ==
  /\ Rq.op = "POST"
  /\ Rq.body.description = JStr("x")
  /\ Rq.body.tags = JStr("t")
  /\ Rs.status = 201
  /\ \E i \in DOMAIN ReadAll(file) :
       /\ ReadAll(file)[i] = Rs.data[1]
       /\ ReadAll(file)[i].description = JStr("x")
       /\ ReadAll(file)[i].tags = JArr(<<JStr("t")>>)

(***************************************************************************)
(* Properties of handlers that run at once.                                *)
(***************************************************************************)

\* What C8 asks of a step.
C8_Step ==
  \A p \in Procs :
    (pc[p] = "write" /\ pc'[p] = "idle")
    => /\ file' \in {WriteEvents(pend[p].events), Corrupt}
       /\ resp'[p] = Response(pend[p])

\* C8: nothing guards the cycle of read, change and write: the write of a
\* handler puts into the file the array the handler made from what it read
\* (or leaves a text that does not parse), whatever the file has come to
\* hold since, and the handler then answers as it had decided; so an event
\* stored since the handler read is gone.
C8_WriteStoresOwnArray == [][C8_Step]_vars

\* Two creates of different pairs have both been answered 201, no handler
\* runs, and the file holds one event.
C8_Witness ==
  /\ \A p \in Procs : pc[p] = "idle" /\ req[p].op = "POST" /\ resp[p].status = 201
  /\ req[1].body.eventName # req[2].body.eventName
  /\ file.st = "json"
  /\ Len(file.events) = 1
  /\ file.events[1] \in {resp[1].data[1], resp[2].data[1]}

\* C10: whatever the interleaving of creates, deletes and updates that keep
\* the date, the file never holds two events with the same pair
\* (eventName, date).
C10_NoDuplicatePair ==
  \A i, j \in DOMAIN Stored :
    i # j => ~(/\ Stored[i].eventName = Stored[j].eventName
               /\ Stored[i].date = Stored[j].date)

\* Two creates of the same pair ran at once: the one of client 1 is stored
\* and answered 201 while the one of client 2, which found no duplicate in
\* what it read, is about to write its own array.
C10_Witness ==
  /\ req[1].op = "POST"
  /\ req[2].op = "POST"
  /\ req[1].body.eventName = req[2].body.eventName
  /\ req[1].body.date = req[2].body.date
  /\ resp[1].status = 201
  /\ pc[2] = "write"
  /\ file = WriteEvents(resp[1].data)
  /\ Len(pend[2].events) = 1

====
